---- MODULE Spec2Model ----
(***************************************************************************)
(* Fallback-and-retry orchestration of llm-lib-public (src/index.ts and    *)
(* the retry / credential helpers of utils).  One top-level call is        *)
(* followed in full; further calls of the same process come after it or,   *)
(* for the adapter preparation, beside it.  Every await of the source is a *)
(* step boundary.                                                          *)
(***************************************************************************)
EXTENDS Integers, Sequences, FiniteSets, TLC

VARIABLES
    env,          \* process.env as getApiKey has found it: per key variable unread, unset, set or set2
    apiKeyCache,  \* providers whose key is held by apiKeyCache
    adapters,     \* providers whose module-level adapter instance exists
    keyCache,     \* the key apiKeyCache holds per provider ("" for none)
    built,        \* history: how many adapter instances were constructed per provider
    ncalls,       \* history: top-level calls started in this process
    clock,        \* Date.now()
    past,         \* history: the outcomes of the calls that have finished
    started_at,   \* the call's started_at / startedAt
    pending,      \* provider whose getApiKey this call awaits ("" for none)
    other,        \* a concurrent top-level call, as far as its adapter preparation goes
    kind,         \* operation of the call in flight
    req,          \* the caller's request
    pc,           \* position of the call
    idx,          \* position of the for-loop in the fallback order (1-based)
    i,            \* loop counter of retryWithBackoff
    delays,       \* waits performed by the current retryWithBackoff run
    rwb,          \* how the current/last retryWithBackoff run stands
    calls,        \* history: adapter invocations with their results
    lastError,    \* the dispatcher's lastError
    retryCount,   \* generateStructuredData's retryCount
    tracking,     \* events handed to logTracking
    sink,         \* what became of each logTracking call: logged, or rejected by a failing sink
    outcome,      \* what the call gave to its caller
    out,          \* chunks yielded by generateStream
    fullText,     \* generateStream's fullText of the open backend
    streamUsage,  \* generateStream's streamUsage of the open backend
    segs,         \* history: what each opened backend stream did
    json          \* a parseLLMJson call: its argument, the frames of its recursion, its end

vars == <<env, apiKeyCache, adapters, keyCache, built, ncalls, clock, past, started_at, pending,
          other, kind, req, pc, idx, i, delays, rwb, calls,
          lastError, retryCount, tracking, sink, outcome, out, fullText, streamUsage, segs, json>>

procVars == <<env, apiKeyCache, adapters, keyCache, built, ncalls, clock, past>>
prepVars == <<pending, other>>
streamVars == <<out, fullText, streamUsage, segs>>
retryVars == <<i, delays, rwb>>
callVars == <<procVars, started_at, prepVars, kind, req, pc, idx, retryVars, calls, lastError,
              retryCount, tracking, sink, outcome, streamVars>>

----------------------------------------------------------------------------
(* Bounds of the explored inputs *)

MaxOrder == 3          \* longest fallback order
MaxRetry == 2          \* largest retry count in a request
MaxRetryList == 2      \* longest per-backend retry list
MaxModelEntries == 1   \* model entries the request itself supplies
MaxJsonAnomalies == 1  \* responses of one call that are not a truthy JSON value
MaxChunks == 2         \* text chunks one backend stream delivers
MaxCalls == 2          \* top-level calls made one after the other in a process
MaxSinkFailures == 1   \* logTracking calls of one call that the sink fails
MaxJsonLen == 3        \* longest argument of parseLLMJson
MaxStack == 3          \* nested parseLLMJson calls the call stack has room for

----------------------------------------------------------------------------
(* Providers, defaults *)

LLMProvider == {"google", "anthropic", "openai", "kling", "venice", "xai"}

\* providers the explored requests name
OrderProviders == {"google", "anthropic", "openai", "kling"}

\* envVarNames of getApiKey: the providers that have a key variable
envVarNames == {"anthropic", "google", "openai", "venice", "xai"}

DEFAULT_CONFIG == [retry |-> 1, fallbackOrder |-> <<"google", "anthropic">>]

ImageFallbackDefault == <<"google", "openai", "kling">>

\* "" stands for a missing (undefined) entry
MODEL_DEFAULTS(k, p) ==
    IF k \in {"text", "structured", "stream"}
    THEN CASE p = "google"    -> "gemini-2.5-flash"
           [] p = "anthropic" -> "claude-3-7-sonnet-latest"
           [] p = "venice"    -> "venice-uncensored"
           [] p = "xai"       -> "grok-4-fast-non-reasoning"
           [] OTHER           -> ""
    ELSE CASE p = "google"    -> "gemini-2.0-flash-exp-image-generation"
           [] p = "openai"    -> "gpt-image-1"
           [] p = "kling"     -> "kling-v1-5"
           [] p = "venice"    -> "lustify-sdxl"
           [] p = "xai"       -> "grok-2-image"
           [] OTHER           -> ""

ConfigModelOrDefault(k, r, p) ==
    CASE r.model[p] = "absent" -> IF MODEL_DEFAULTS(k, p) = "" THEN MODEL_DEFAULTS(k, "google")
                                  ELSE MODEL_DEFAULTS(k, p)
      [] r.model[p] = "falsy"  -> ""
      [] OTHER                 -> r.model[p]

\* config.model[p] after  { ...MODEL_DEFAULTS.kind, ...request.model }
ConfigModel(k, r, p) ==
    CASE r.model[p] = "absent" -> MODEL_DEFAULTS(k, p)
      [] r.model[p] = "falsy"  -> ""
      [] OTHER                 -> r.model[p]

\* config.fallbackOrder || default
FallbackOrder(k, r) ==
    CASE r.order.t = "list"   -> r.order.l
      [] r.order.t = "absent" -> DEFAULT_CONFIG.fallbackOrder
      [] OTHER                -> IF k = "image" THEN ImageFallbackDefault
                                 ELSE DEFAULT_CONFIG.fallbackOrder

Undefined == -1000     \* the JavaScript value undefined, where a number is expected

\* Array.isArray(config.retry) ? config.retry[0] : config.retry || DEFAULT_CONFIG.retry
RetryArg(r) ==
    CASE r.retry.t = "list" -> IF Len(r.retry.l) = 0 THEN Undefined ELSE r.retry.l[1]
      [] r.retry.t = "num"  -> IF r.retry.n = 0 THEN DEFAULT_CONFIG.retry ELSE r.retry.n
      [] OTHER              -> DEFAULT_CONFIG.retry

\* i <= retries  and  i < retries  of retryWithBackoff (a comparison with undefined is false)
LoopCond(j, retries) == retries # Undefined /\ j <= retries
MoreTries(j, retries) == retries # Undefined /\ j < retries

RECURSIVE Pow2(_)
Pow2(n) == IF n <= 0 THEN 1 ELSE 2 * Pow2(n - 1)

InitialDelay == 1000

BackoffDelayLinear(initialDelay, j) == initialDelay * 2 * j

\* const delay = initialDelay * Math.pow(2, i)
BackoffDelay(initialDelay, j) == initialDelay * Pow2(j)

----------------------------------------------------------------------------
(* Errors *)

Err(name, msg, provider, code, at) ==
    [name |-> name, msg |-> msg, provider |-> provider, code |-> code, at |-> at]

NullError == Err("null", "", "", "", 0)
UndefinedError == Err("undefined", "", "", "", 0)

\* getApiKey's LLMError for a missing key
MissingKeyError(p) == Err("LLMError", "API key not found", p, "MISSING_API_KEY", 0)

\* the LLMError an adapter throws at its n-th invocation of the call
AdapterError(p, n) == Err("LLMError", "adapter error", p, "VENDOR", n)

ParseError(n) == Err("Error", "Failed to parse LLM JSON", "", "", n)

\* KlingAdapter.getCredential without KLING_ACCESS_KEY_ID / KLING_ACCESS_KEY_SECRET
KlingCredentialError(n) == Err("LLMError", "Kling credentials not found", "kling", "MISSING_CREDENTIALS", n)

NoResponseError(k) ==
    IF k = "structured"
    THEN Err("Error", "No response from adapter or failed to parse data", "", "", 0)
    ELSE Err("Error", "No response from adapter", "", "", 0)

AllFailedError == Err("Error", "All providers failed", "", "", 0)

AnthropicImageError == Err("Error", "Anthropic does not support image generation", "", "", 0)

\* error.message of the value caught by the dispatcher throws for undefined
MessageReadError == Err("TypeError", "Cannot read properties of undefined", "", "", 0)

----------------------------------------------------------------------------
(* Requests *)

RECURSIVE SeqsUpTo(_, _)
SeqsUpTo(S, n) ==
    IF n = 0 THEN {<<>>}
    ELSE LET shorter == SeqsUpTo(S, n - 1)
         IN shorter \cup {Append(s, x) : s \in {t \in shorter : Len(t) = n - 1}, x \in S}

NoDup(s) == \A a, b \in 1..Len(s) : a # b => s[a] # s[b]

OrderInputs ==
    {[t |-> "list", l |-> s] : s \in {q \in SeqsUpTo(OrderProviders, MaxOrder) : NoDup(q)}}
    \cup {[t |-> "absent", l |-> <<>>], [t |-> "undefined", l |-> <<>>]}

ModelInputs ==
    {m \in [LLMProvider -> {"absent", "custom", "falsy"}] :
        /\ \A p \in LLMProvider \ OrderProviders : m[p] = "absent"
        /\ Cardinality({p \in LLMProvider : m[p] # "absent"}) <= MaxModelEntries}

RetryInputs ==
    {[t |-> "none", n |-> 0, l |-> <<>>]}
    \cup {[t |-> "num", n |-> n, l |-> <<>>] : n \in -1..MaxRetry}
    \cup {[t |-> "list", n |-> 0, l |-> s] : s \in SeqsUpTo(0..MaxRetry, MaxRetryList)}

\* the requests explored for operation k with a fallbackOrder field among orders
\* and a retry field among retries; a model entry for a provider that the call
\* never looks up is left out
RequestsWith(k, orders, retries) ==
    {r \in [order : orders, model : ModelInputs, retry : retries] :
        /\ \A p \in LLMProvider :
              r.model[p] # "absent" =>
                 \/ \E j \in 1..Len(FallbackOrder(k, r)) : FallbackOrder(k, r)[j] = p
                 \/ k = "image" /\ p = "anthropic"
        /\ k = "stream" => r.retry.t = "none" \/ (r.retry.t = "num" /\ r.retry.n = MaxRetry)}

RequestsOver(k, orders) == RequestsWith(k, orders, RetryInputs)

Requests(k) == RequestsOver(k, OrderInputs)

\* the fallbackOrder fields that list at most n providers
OrdersUpTo(n) == {o \in OrderInputs : Len(o.l) <= n}

NoRequest == [order |-> [t |-> "absent", l |-> <<>>],
              model |-> [p \in LLMProvider |-> "absent"],
              retry |-> [t |-> "none", n |-> 0, l |-> <<>>]]

----------------------------------------------------------------------------
(* The call in flight *)

Order == FallbackOrder(kind, req)
Retries == RetryArg(req)
Model(p) == ConfigModel(kind, req, p)

\* the fields of the returned object literal that hold a value: text and data
\* both in generateStructuredData, which hands back the raw response with the
\* parsed value
ResultFields(k) ==
    CASE k = "text"       -> {"text"}
      [] k = "image"      -> {"imageUrl"}
      [] k = "structured" -> {"text", "data"}
      [] OTHER            -> {}

NoOutcome ==
    [status |-> "none", provider |-> "", model |-> "", payload |-> 0, error |-> NullError,
     fields |-> {}]
Returned(p, m, payload) ==
    [status |-> "returned", provider |-> p, model |-> m, payload |-> payload, error |-> NullError,
     fields |-> ResultFields(kind)]
Raised(e) ==
    [status |-> "raised", provider |-> "", model |-> "", payload |-> 0, error |-> e,
     fields |-> {}]

trackIdPerEvent == ncalls + Len(tracking)

\* const trackId = generateTrackId(), at the entry of the call: one id per call
trackId == ncalls

\* one argument of logTracking
Event(p, m, usage, k, err, rc) ==
    [trackid |-> trackId, provider |-> p, model |-> m, usage |-> usage, started_at |-> started_at,
     request_type |-> k, error |-> err, retry_count |-> rc]

\* what becomes of the promise of one logTracking call: console.log went
\* through, or the sink threw and the promise is rejected
SinkResults == {"logged", "rejected"}

SinkChoices ==
    IF Cardinality({j \in 1..Len(sink) : sink[j] = "rejected"}) < MaxSinkFailures
    THEN SinkResults ELSE {"logged"}

LogTrackingThrowsRejected(s) == s = "rejected"

\* logTracking(...) is called without await and without catch: whatever becomes
\* of its promise, nothing is thrown at the call site
LogTrackingThrows(s) == FALSE

\* no parseLLMJson call
NoJson == [status |-> "idle", input |-> <<>>, frames |-> <<>>, overflow |-> FALSE]

\* no concurrent call
NoOther == [pc |-> "none", order |-> <<>>, pending |-> "", used |-> {}]

Init ==
    /\ env = [p \in envVarNames |-> "unread"]
    /\ apiKeyCache = {}
    /\ adapters = {}
    /\ keyCache = [p \in envVarNames |-> ""]
    /\ built = [p \in LLMProvider |-> 0]
    /\ ncalls = 0
    /\ clock = 0
    /\ past = <<>>
    /\ started_at = 0
    /\ pending = ""
    /\ other = NoOther
    /\ kind = "none"
    /\ req = NoRequest
    /\ pc = "idle"
    /\ idx = 0
    /\ i = 0
    /\ delays = <<>>
    /\ rwb = "none"
    /\ calls = <<>>
    /\ lastError = NullError
    /\ retryCount = 0
    /\ tracking = <<>>
    /\ sink = <<>>
    /\ json = NoJson
    /\ outcome = NoOutcome
    /\ out = <<>>
    /\ fullText = <<>>
    /\ streamUsage = 0
    /\ segs = <<>>

InSeq(x, s) == \E j \in 1..Len(s) : s[j] = x

\* the "Prepare adapters" blocks, in source order
PrepOrder(k) ==
    IF k = "image" THEN <<"google", "openai", "kling", "venice", "xai">>
    ELSE <<"anthropic", "google", "openai", "venice", "xai">>

\* the providers a call still has to construct, in source order
RECURSIVE PendingPrepAll(_, _, _, _)
PendingPrepAll(k, order, have, from) ==
    IF from > Len(PrepOrder(k)) THEN <<>>
    ELSE LET p == PrepOrder(k)[from]
             rest == PendingPrepAll(k, order, have, from + 1)
         IN IF InSeq(p, order) THEN <<p>> \o rest ELSE rest

RECURSIVE PendingPrep(_, _, _, _)
PendingPrep(k, order, have, from) ==
    IF from > Len(PrepOrder(k)) THEN <<>>
    ELSE LET p == PrepOrder(k)[from]
             rest == PendingPrep(k, order, have, from + 1)
         IN IF InSeq(p, order) /\ p \notin have THEN <<p>> \o rest ELSE rest

ImageRejectedModelOnly(r) == ConfigModel("image", r, "anthropic") # ""

\* generateImage: config.model.anthropic || fallbackOrder.includes('anthropic')
ImageRejected(r) ==
    ConfigModel("image", r, "anthropic") # "" \/ InSeq("anthropic", FallbackOrder("image", r))

\* process.env[envVarName]: the environment is an input, fixed once it has been read
ReadEnv(p) == IF env[p] = "unread" THEN {"set", "unset"} ELSE {env[p]}

KeyFoundAlways(v) == TRUE

\* if (!apiKey) throw ... : the value read from process.env is a usable key
KeyFound(v) == v # "unset"

\* entry of generateText / generateImage / generateStructuredData up to the first await
StartCall(k, r) ==
    /\ pc = "idle"
    /\ kind' = k
    /\ req' = r
    /\ IF k = "image" /\ ImageRejected(r)
       THEN /\ pc' = "raised"
            /\ outcome' = Raised(AnthropicImageError)
       ELSE /\ pc' = "prep"
            /\ UNCHANGED outcome
    /\ ncalls' = ncalls + 1
    /\ started_at' = clock
    /\ UNCHANGED json
    /\ UNCHANGED <<env, apiKeyCache, adapters, keyCache, built, clock, past, prepVars>>
    /\ UNCHANGED <<idx, retryVars, calls, lastError, retryCount, tracking, sink, streamVars>>

StartText == pc = "idle" /\ \E r \in Requests("text") : StartCall("text", r)
StartImage == pc = "idle" /\ \E r \in Requests("image") : StartCall("image", r)
StartStructured == pc = "idle" /\ \E r \in Requests("structured") : StartCall("structured", r)
StartStream == pc = "idle" /\ \E r \in Requests("stream") : StartCall("stream", r)

\* one  if (fallbackOrder.includes(p) && !p) { getApiKey; new Adapter }  block,
\* or the fall-through into the loop when no block remains
Prepare ==
    /\ pc = "prep"
    /\ LET todo == PendingPrep(kind, Order, adapters, 1)
       IN IF todo = <<>>
          THEN /\ pc' = IF kind = "stream" THEN "sloop" ELSE "loop"
               /\ idx' = 1
               /\ UNCHANGED <<env, apiKeyCache, adapters, keyCache, built, outcome>>
          ELSE LET p == todo[1]
               IN IF p = "kling" \/ p \in apiKeyCache
                  THEN /\ adapters' = adapters \cup {p}
                       /\ built' = [built EXCEPT ![p] = @ + 1]
                       /\ UNCHANGED <<env, apiKeyCache, keyCache, pc, idx, outcome>>
                  ELSE \E v \in ReadEnv(p) :
                         /\ env' = [env EXCEPT ![p] = v]
                         /\ IF KeyFound(v)
                            THEN /\ apiKeyCache' = apiKeyCache \cup {p}
                                 /\ keyCache' = [keyCache EXCEPT ![p] = v]
                                 /\ adapters' = adapters \cup {p}
                                 /\ built' = [built EXCEPT ![p] = @ + 1]
                                 /\ UNCHANGED <<pc, idx, outcome>>
                            ELSE /\ pc' = "raised"
                                 /\ outcome' = Raised(MissingKeyError(p))
                                 /\ UNCHANGED <<apiKeyCache, keyCache, adapters, built, idx>>
    /\ UNCHANGED <<ncalls, clock, past, started_at, prepVars>>
    /\ UNCHANGED <<kind, json, req, retryVars, calls, lastError, retryCount, tracking, sink, streamVars>>

----------------------------------------------------------------------------
(* One-shot dispatcher: generateText, generateImage, generateStructuredData *)

\* the providers the switch inside the attempt function has a case for
HasCase(k, p) ==
    IF k = "image" THEN p \in {"google", "openai", "kling", "venice", "xai"}
    ELSE p \in {"anthropic", "google", "openai", "venice", "xai"}

\* what one adapter invocation can come to, as the attempt function sees it:
\*   fail     the adapter throws
\*   ok       the adapter returns (structured: text that parses to a truthy value)
\*   nulljson structured: text that parses to null, false, 0 or ""
\*   badjson  structured: text that parseLLMJson rejects
\*   nocred   image: KlingAdapter.generateImage throws for want of its credentials
AttemptResults(k) ==
    CASE k = "structured" -> {"fail", "ok", "nulljson", "badjson"}
      [] k = "image"      -> {"fail", "ok", "nocred"}
      [] OTHER            -> {"fail", "ok"}

\* what the Kling adapter finds of its credentials in process.env: fixed during
\* a call, and kept by the adapter once found
KlingCredential ==
    LET seen == {j \in 1..Len(calls) : calls[j].provider = "kling"}
    IN IF seen = {} THEN {"set", "unset"}
       ELSE IF \A j \in seen : calls[j].res = "nocred" THEN {"unset"} ELSE {"set"}

\* the adapter throws at invocation n
Throws(res) == res \in {"fail", "nocred"}

ThrownError(p, n, res) ==
    CASE res = "fail"   -> AdapterError(p, n)
      [] res = "nocred" -> KlingCredentialError(n)
      [] OTHER          -> ParseError(n)

JsonAnomalies == Cardinality({j \in 1..Len(calls) : calls[j].res \in {"nulljson", "badjson"}})

\* parseLLMJson on the adapter's response text: does it throw, and is the value truthy
parseLLMJson(res) == [throws |-> res = "badjson", truthy |-> res = "ok"]

\* for (const provider of fallbackOrder) { const model = ...; if (!model) continue;
Skip ==
    /\ pc = "loop"
    /\ idx <= Len(Order)
    /\ Model(Order[idx]) = ""
    /\ idx' = idx + 1
    /\ UNCHANGED <<procVars, kind, json, req, pc, retryVars, calls, lastError, retryCount,
                   tracking, sink, outcome, streamVars>>
    /\ UNCHANGED <<started_at, prepVars>>

\* try { ... retryCount++; await retryWithBackoff(fn, retries)  up to the loop head
Enter ==
    /\ pc = "loop"
    /\ idx <= Len(Order)
    /\ Model(Order[idx]) # ""
    /\ pc' = "retry"
    /\ i' = 0
    /\ delays' = <<>>
    /\ rwb' = "run"
    /\ retryCount' = IF kind = "structured" THEN retryCount + 1 ELSE retryCount
    /\ UNCHANGED <<procVars, kind, json, req, idx, calls, lastError, tracking, sink, outcome, streamVars>>
    /\ UNCHANGED <<started_at, prepVars>>

\* retryWithBackoff's loop never runs: it throws its unset lastError, and the
\* dispatcher's catch block reads error.message of undefined
NoRun ==
    /\ pc = "retry"
    /\ ~LoopCond(i, Retries)
    /\ rwb' = "threw"
    /\ lastError' = UndefinedError
    /\ pc' = "raised"
    /\ outcome' = Raised(MessageReadError)
    /\ UNCHANGED <<procVars, kind, json, req, idx, i, delays, calls, retryCount, tracking, sink, streamVars>>
    /\ UNCHANGED <<started_at, prepVars>>

\* the attempt function for a provider the switch has no case for: it resolves
\* without a response, and the dispatcher throws and catches 'No response'
NoCase ==
    /\ pc = "retry"
    /\ LoopCond(i, Retries)
    /\ kind # "image"
    /\ ~HasCase(kind, Order[idx])
    /\ rwb' = "ok"
    /\ lastError' = NoResponseError(kind)
    /\ idx' = idx + 1
    /\ pc' = "loop"
    /\ UNCHANGED <<procVars, kind, json, req, i, delays, calls, retryCount, tracking, sink, outcome, streamVars>>
    /\ UNCHANGED <<started_at, prepVars>>

OnResolvedDefaultModel(p, m, n, res) ==
    IF kind = "structured" /\ ~parseLLMJson(res).truthy
    THEN /\ lastError' = NoResponseError(kind)
         /\ idx' = idx + 1
         /\ pc' = "loop"
         /\ UNCHANGED <<outcome>>
    ELSE /\ outcome' = Returned(p, MODEL_DEFAULTS(kind, p), n)
         /\ pc' = "returned"
         /\ UNCHANGED <<lastError, idx>>

\* what the dispatcher does once retryWithBackoff has resolved after invocation n
OnResolved(p, m, n, res) ==
    IF kind = "structured" /\ ~parseLLMJson(res).truthy
    THEN /\ lastError' = NoResponseError(kind)
         /\ idx' = idx + 1
         /\ pc' = "loop"
         /\ UNCHANGED <<outcome>>
    ELSE /\ outcome' = Returned(p, m, n)
         /\ pc' = "returned"
         /\ UNCHANGED <<lastError, idx>>

ResponseEventsAfterParse(p, m, n, res) ==
    IF res = "ok" THEN <<Event(p, m, n, kind, "", IF kind = "structured" THEN retryCount - 1 ELSE 0)>>
    ELSE <<>>

ResponseEventsEveryAttempt(p, m, n, res) ==
    <<Event(p, m, IF Throws(res) THEN 0 ELSE n, kind, IF Throws(res) THEN "adapter error" ELSE "",
            IF kind = "structured" THEN retryCount - 1 ELSE 0)>>

ResponseEventsPlaceholder(p, m, n, res) ==
    CASE kind = "structured" /\ ~Throws(res) -> <<Event(p, m, n, "structured", "", 0)>>
      [] kind # "structured" /\ res = "ok" -> <<Event(p, m, n, kind, "", 0)>>
      [] OTHER                                  -> <<>>

\* events logged because invocation n returned a response
ResponseEvents(p, m, n, res) ==
    CASE kind = "structured" /\ ~Throws(res) -> <<Event(p, m, n, "structured", "", retryCount - 1)>>
      [] kind # "structured" /\ res = "ok" -> <<Event(p, m, n, kind, "", 0)>>
      [] OTHER                                  -> <<>>

OnTryFailedNoWait(e) ==
    IF MoreTries(i, Retries)
    THEN /\ rwb' = "run"
         /\ i' = i + 1
         /\ UNCHANGED <<delays, pc, lastError, idx>>
    ELSE /\ rwb' = "threw"
         /\ i' = i + 1
         /\ lastError' = e
         /\ idx' = idx + 1
         /\ pc' = "loop"
         /\ UNCHANGED <<delays>>

\* the catch block of retryWithBackoff after try number i has thrown e
OnTryFailed(e) ==
    IF MoreTries(i, Retries)
    THEN /\ delays' = Append(delays, BackoffDelay(InitialDelay, i))
         /\ rwb' = "sleep"
         /\ pc' = "sleep"
         /\ UNCHANGED <<lastError, idx, i>>
    ELSE /\ rwb' = "threw"
         /\ i' = i + 1
         /\ lastError' = e
         /\ idx' = idx + 1
         /\ pc' = "loop"
         /\ UNCHANGED <<delays>>

\* one try of retryWithBackoff: the adapter is invoked and what follows up to
\* the next await (the backoff sleep, the return, or the next loop iteration)
Attempt ==
    /\ pc = "retry"
    /\ LoopCond(i, Retries)
    /\ HasCase(kind, Order[idx])
    /\ \E res \in AttemptResults(kind), s \in SinkChoices :
        /\ res \in {"nulljson", "badjson"} => JsonAnomalies < MaxJsonAnomalies
        /\ \E c \in KlingCredential : res = "nocred" <=> (Order[idx] = "kling" /\ c = "unset")
        /\ LET p == Order[idx]
               m == Model(p)
               n == Len(calls) + 1
               e == ThrownError(p, n, res)
               evs == ResponseEvents(p, m, n, res)
           IN /\ evs = <<>> => s = "logged"
              /\ calls' = Append(calls, [pos |-> idx, provider |-> p, try |-> i, res |-> res])
              /\ tracking' = tracking \o evs
              /\ sink' = sink \o [j \in 1..Len(evs) |-> s]
              /\ IF Throws(res) \/ parseLLMJson(res).throws \/ (evs # <<>> /\ LogTrackingThrows(s))
                 THEN OnTryFailed(e) /\ UNCHANGED outcome
                 ELSE /\ rwb' = "ok"
                      /\ OnResolved(p, m, n, res)
                      /\ UNCHANGED <<delays, i>>
    /\ UNCHANGED <<procVars, kind, json, req, retryCount, streamVars>>
    /\ UNCHANGED <<started_at, prepVars>>

\* await sleep(delay) ends; i++
Wake ==
    /\ pc = "sleep"
    /\ pc' = "retry"
    /\ rwb' = "run"
    /\ i' = i + 1
    /\ clock' = clock + 1
    /\ UNCHANGED <<env, apiKeyCache, adapters, keyCache, built, ncalls, past>>
    /\ UNCHANGED <<kind, json, req, idx, delays, calls, lastError, retryCount,
                   tracking, sink, outcome, streamVars>>
    /\ UNCHANGED <<started_at, prepVars>>

ExhaustedLabelsLast ==
    /\ pc = "loop"
    /\ idx > Len(Order)
    /\ LET e == IF lastError = NullError THEN AllFailedError ELSE lastError
           last == IF Len(Order) > 0 THEN Order[Len(Order)] ELSE "unknown"
       IN /\ IF kind = "structured"
             THEN UNCHANGED <<tracking, sink>>
             ELSE /\ tracking' = Append(tracking, Event(last, "unknown", 0, kind, e.msg, 0))
                  /\ \E s \in SinkChoices : sink' = Append(sink, s)
          /\ outcome' = Raised(e)
    /\ pc' = "raised"
    /\ UNCHANGED <<procVars, kind, json, req, idx, retryVars, calls, lastError, retryCount, streamVars>>
    /\ UNCHANGED <<started_at, prepVars>>

\* after the loop: the terminal tracking event (text, image) and the throw
Exhausted ==
    /\ pc = "loop"
    /\ idx > Len(Order)
    /\ LET e == IF lastError = NullError THEN AllFailedError ELSE lastError
           first == IF Len(Order) > 0 THEN Order[1] ELSE "unknown"
       IN /\ IF kind = "structured"
             THEN UNCHANGED <<tracking, sink>>
             ELSE /\ tracking' = Append(tracking, Event(first, "unknown", 0, kind, e.msg, 0))
                  /\ \E s \in SinkChoices : sink' = Append(sink, s)
          /\ outcome' = Raised(e)
    /\ pc' = "raised"
    /\ UNCHANGED <<procVars, kind, json, req, idx, retryVars, calls, lastError, retryCount, streamVars>>
    /\ UNCHANGED <<started_at, prepVars>>

----------------------------------------------------------------------------
(* Streaming dispatcher: generateStream, iterated to its end by the caller *)

RECURSIVE Filter(_, _)
Filter(s, x) ==
    IF s = <<>> THEN <<>>
    ELSE IF s[1] = x THEN Filter(Tail(s), x) ELSE <<s[1]>> \o Filter(Tail(s), x)

\* fallbackOrder.filter(p => p !== 'kling')
StreamingProviders == Filter(Order, "kling")

Chunk(text, p, m, status, e) ==
    [text |-> text, provider |-> p, model |-> m, streamStatus |-> status, error |-> e]

\* yield { text: chunk.text, ..., provider, model }
TextChunk(t, p, m) == Chunk(<<t>>, p, m, "", NullError)

FailureChunkNoText(full, p, m, e) == Chunk(<<>>, p, m, "error", Err("LLMError", e.msg, p, e.code, e.at))

\* yield { text: fullText, ..., streamStatus: 'error', error: new LLMError(lastError.message, provider, code, statusCode) }
FailureChunk(full, p, m, e) == Chunk(full, p, m, "error", Err("LLMError", e.msg, p, e.code, e.at))

\* the chunk yielded after the loop
AllFailedChunk(sp, mdl, e) ==
    LET first == IF Len(sp) > 0 THEN sp[1] ELSE "google"
        m == IF Len(sp) > 0 /\ mdl # "" THEN mdl ELSE "unknown"
        msg == IF e = NullError THEN "All streaming providers failed" ELSE e.msg
    IN Chunk(<<>>, first, m, "error", Err("LLMError", msg, first, "STREAM_FAILED", e.at))

TextsYielded == Len(SelectSeq(out, LAMBDA c : c.streamStatus = ""))

\* for (const provider of streamingProviders) { ...; if (!model) continue;
SSkip ==
    /\ pc = "sloop"
    /\ idx <= Len(StreamingProviders)
    /\ Model(StreamingProviders[idx]) = ""
    /\ idx' = idx + 1
    /\ UNCHANGED <<procVars, kind, json, req, pc, retryVars, calls, lastError, retryCount,
                   tracking, sink, outcome, streamVars>>
    /\ UNCHANGED <<started_at, prepVars>>

\* let fullText = ''; let streamUsage; the adapter's stream is created and first pulled
SOpen ==
    /\ pc = "sloop"
    /\ idx <= Len(StreamingProviders)
    /\ Model(StreamingProviders[idx]) # ""
    /\ pc' = "streaming"
    /\ fullText' = <<>>
    /\ streamUsage' = 0
    /\ segs' = Append(segs, [pos |-> idx, provider |-> StreamingProviders[idx],
                             texts |-> <<>>, end |-> "open"])
    /\ UNCHANGED <<procVars, kind, json, req, idx, retryVars, calls, lastError, retryCount,
                   tracking, sink, outcome, out>>
    /\ UNCHANGED <<started_at, prepVars>>

\* the adapter yields a text chunk: fullText += chunk.text; yield it
SText ==
    /\ pc = "streaming"
    /\ Len(fullText) < MaxChunks
    /\ LET p == StreamingProviders[idx]
           t == TextsYielded + 1
       IN /\ fullText' = Append(fullText, t)
          /\ out' = Append(out, TextChunk(t, p, Model(p)))
          /\ segs' = [segs EXCEPT ![Len(segs)].texts = Append(@, t)]
    /\ UNCHANGED <<procVars, kind, json, req, pc, idx, retryVars, calls, lastError, retryCount,
                   tracking, sink, outcome, streamUsage>>
    /\ UNCHANGED <<started_at, prepVars>>

SCompleteContinues ==
    /\ pc = "streaming"
    /\ \E u \in {0, Len(segs)} :
        LET p == StreamingProviders[idx]
        IN /\ streamUsage' = u
           /\ tracking' = Append(tracking, Event(p, Model(p), u, "stream", "", 0))
           /\ \E s \in SinkChoices : sink' = Append(sink, s)
    /\ segs' = [segs EXCEPT ![Len(segs)].end = "clean"]
    /\ idx' = idx + 1
    /\ pc' = "sloop"
    /\ UNCHANGED <<procVars, kind, json, req, retryVars, calls, lastError, retryCount,
                   outcome, out, fullText>>
    /\ UNCHANGED <<started_at, prepVars>>

\* the adapter's stream ends, after a final usage chunk (u > 0) or without one:
\* the success event is logged and the generator returns
SComplete ==
    /\ pc = "streaming"
    /\ \E u \in {0, Len(segs)} :
        LET p == StreamingProviders[idx]
        IN /\ streamUsage' = u
           /\ tracking' = Append(tracking, Event(p, Model(p), u, "stream", "", 0))
           /\ \E s \in SinkChoices : sink' = Append(sink, s)
    /\ segs' = [segs EXCEPT ![Len(segs)].end = "clean"]
    /\ pc' = "done"
    /\ UNCHANGED <<procVars, kind, json, req, idx, retryVars, calls, lastError, retryCount,
                   outcome, out, fullText>>
    /\ UNCHANGED <<started_at, prepVars>>

\* the adapter's stream throws and the same provider is tried again
SThrowReopens ==
    /\ pc = "streaming"
    /\ LET p == StreamingProviders[idx]
           e == AdapterError(p, Len(segs))
       IN /\ lastError' = e
          /\ out' = Append(out, FailureChunk(fullText, p, Model(p), e))
    /\ segs' = [segs EXCEPT ![Len(segs)].end = "threw"]
    /\ pc' = "sloop"
    /\ UNCHANGED <<procVars, kind, json, req, idx, retryVars, calls, retryCount, tracking, sink,
                   outcome, fullText, streamUsage>>
    /\ UNCHANGED <<started_at, prepVars>>

\* the adapter's stream throws: lastError is set, the failure chunk is yielded,
\* and the loop continues with the next provider
SThrow ==
    /\ pc = "streaming"
    /\ LET p == StreamingProviders[idx]
           e == AdapterError(p, Len(segs))
       IN /\ lastError' = e
          /\ out' = Append(out, FailureChunk(fullText, p, Model(p), e))
    /\ segs' = [segs EXCEPT ![Len(segs)].end = "threw"]
    /\ idx' = idx + 1
    /\ pc' = "sloop"
    /\ UNCHANGED <<procVars, kind, json, req, retryVars, calls, retryCount, tracking, sink, outcome,
                   fullText, streamUsage>>
    /\ UNCHANGED <<started_at, prepVars>>

\* after the loop: the terminal chunk is yielded and the generator ends
SAllFailed ==
    /\ pc = "sloop"
    /\ idx > Len(StreamingProviders)
    /\ LET sp == StreamingProviders
           mdl == IF Len(sp) > 0 THEN Model(sp[1]) ELSE ""
       IN out' = Append(out, AllFailedChunk(sp, mdl, lastError))
    /\ pc' = "done"
    /\ UNCHANGED <<procVars, kind, json, req, idx, retryVars, calls, lastError, retryCount,
                   tracking, sink, outcome, fullText, streamUsage, segs>>
    /\ UNCHANGED <<started_at, prepVars>>

----------------------------------------------------------------------------
(* A process that makes several calls *)

\* the values an environment variable can be given
EnvValues == {"unset", "set", "set2"}

\* the call has come back to its caller, who makes another one: the call's own
\* variables start afresh, the module-level state stays
Again ==
    /\ pc \in {"returned", "raised", "done"}
    /\ ncalls < MaxCalls
    /\ past' = Append(past, outcome)
    /\ kind' = "none"
    /\ req' = NoRequest
    /\ pc' = "idle"
    /\ idx' = 0
    /\ i' = 0
    /\ delays' = <<>>
    /\ rwb' = "none"
    /\ calls' = <<>>
    /\ lastError' = NullError
    /\ retryCount' = 0
    /\ tracking' = <<>>
    /\ sink' = <<>>
    /\ outcome' = NoOutcome
    /\ out' = <<>>
    /\ fullText' = <<>>
    /\ streamUsage' = 0
    /\ segs' = <<>>
    /\ started_at' = 0
    /\ UNCHANGED json
    /\ UNCHANGED <<env, apiKeyCache, adapters, keyCache, built, ncalls, clock, prepVars>>

\* between two calls the application or its operator changes a key variable
\* of process.env that an earlier call has looked up
ChangeEnv ==
    /\ pc = "idle"
    /\ ncalls >= 1
    /\ \E p \in envVarNames, v \in EnvValues :
        /\ env[p] \notin {"unread", v}
        /\ env' = [env EXCEPT ![p] = v]
    /\ UNCHANGED <<apiKeyCache, adapters, keyCache, built, ncalls, clock, past, started_at, prepVars>>
    /\ UNCHANGED <<kind, json, req, idx, retryVars, calls, lastError, retryCount, tracking, sink,
                   outcome, streamVars>>
    /\ UNCHANGED pc

----------------------------------------------------------------------------
(* Two top-level calls in flight at once. Each
     if (fallbackOrder.includes(p) && !p) { const apiKey = await getApiKey(p); p = new Adapter(apiKey) }
   block has one await: the test and the whole of getApiKey run before it, the
   construction and the assignment after it, and the other call may run in
   between. The current call is followed in full; of the other one, a
   generateText call, its preparation and the adapters it invokes. *)

TruthyOnceAwaited == adapters \cup ({pending, other.pending} \ {""})

\* the adapter variables that test truthy in  !anthropic, !google, ...
Truthy == adapters

\* up to the await of the next block: the test of the adapter variable and getApiKey
PrepKey ==
    /\ pc = "prep"
    /\ pending = ""
    /\ LET todo == PendingPrep(kind, Order, Truthy, 1)
       IN IF todo = <<>>
          THEN /\ pc' = IF kind = "stream" THEN "sloop" ELSE "loop"
               /\ idx' = 1
               /\ UNCHANGED <<env, apiKeyCache, keyCache, pending, outcome>>
          ELSE LET p == todo[1]
               IN IF p \in apiKeyCache
                  THEN /\ pending' = p
                       /\ UNCHANGED <<env, apiKeyCache, keyCache, pc, idx, outcome>>
                  ELSE \E v \in ReadEnv(p) :
                         /\ env' = [env EXCEPT ![p] = v]
                         /\ IF KeyFound(v)
                            THEN /\ apiKeyCache' = apiKeyCache \cup {p}
                                 /\ keyCache' = [keyCache EXCEPT ![p] = v]
                                 /\ pending' = p
                                 /\ UNCHANGED <<pc, idx, outcome>>
                            ELSE /\ pc' = "raised"
                                 /\ outcome' = Raised(MissingKeyError(p))
                                 /\ UNCHANGED <<apiKeyCache, keyCache, pending, idx>>
    /\ UNCHANGED <<adapters, built, ncalls, clock, past, started_at, other>>
    /\ UNCHANGED <<kind, json, req, retryVars, calls, lastError, retryCount, tracking, sink, streamVars>>

\* after the await: p = new Adapter(apiKey), whatever the variable holds by now
PrepBuild ==
    /\ pc = "prep"
    /\ pending # ""
    /\ adapters' = adapters \cup {pending}
    /\ built' = [built EXCEPT ![pending] = @ + 1]
    /\ pending' = ""
    /\ UNCHANGED <<env, apiKeyCache, keyCache, ncalls, clock, past, started_at, other>>
    /\ UNCHANGED <<kind, json, req, pc, idx, retryVars, calls, lastError, retryCount, tracking, sink,
                   outcome, streamVars>>

\* the fallback orders of the other call
OtherOrders == {o.l : o \in {q \in OrdersUpTo(2) : q.t = "list" /\ q.l # <<>>}}

OtherUnchanged ==
    UNCHANGED <<ncalls, clock, past, started_at, pending, kind, json, req, pc, idx, retryVars, calls,
                lastError, retryCount, tracking, sink, outcome, streamVars>>

\* the other call enters generateText
OtherStart ==
    /\ other.pc = "none"
    /\ \E o \in OtherOrders : other' = [other EXCEPT !.pc = "prep", !.order = o]
    /\ UNCHANGED <<env, apiKeyCache, adapters, keyCache, built>>
    /\ OtherUnchanged

\* the other call, up to the await of its next block
OtherKey ==
    /\ other.pc = "prep"
    /\ other.pending = ""
    /\ LET todo == PendingPrep("text", other.order, Truthy, 1)
       IN IF todo = <<>>
          THEN /\ other' = [other EXCEPT !.pc = "loop"]
               /\ UNCHANGED <<env, apiKeyCache, keyCache>>
          ELSE LET p == todo[1]
               IN IF p \in apiKeyCache
                  THEN /\ other' = [other EXCEPT !.pending = p]
                       /\ UNCHANGED <<env, apiKeyCache, keyCache>>
                  ELSE \E v \in ReadEnv(p) :
                         /\ env' = [env EXCEPT ![p] = v]
                         /\ IF KeyFound(v)
                            THEN /\ apiKeyCache' = apiKeyCache \cup {p}
                                 /\ keyCache' = [keyCache EXCEPT ![p] = v]
                                 /\ other' = [other EXCEPT !.pending = p]
                            ELSE /\ other' = [other EXCEPT !.pc = "raised"]
                                 /\ UNCHANGED <<apiKeyCache, keyCache>>
    /\ UNCHANGED <<adapters, built>>
    /\ OtherUnchanged

\* the other call, after the await
OtherBuild ==
    /\ other.pc = "prep"
    /\ other.pending # ""
    /\ adapters' = adapters \cup {other.pending}
    /\ built' = [built EXCEPT ![other.pending] = @ + 1]
    /\ other' = [other EXCEPT !.pending = ""]
    /\ UNCHANGED <<env, apiKeyCache, keyCache>>
    /\ OtherUnchanged

\* the other call invokes the adapter of a backend of its order, or comes to its end
OtherInvoke ==
    /\ other.pc = "loop"
    /\ \/ \E p \in {q \in LLMProvider : InSeq(q, other.order) /\ HasCase("text", q)} :
             /\ p \notin other.used
             /\ other' = [other EXCEPT !.used = @ \cup {p}]
       \/ other' = [other EXCEPT !.pc = "done"]
    /\ UNCHANGED <<env, apiKeyCache, adapters, keyCache, built>>
    /\ OtherUnchanged

----------------------------------------------------------------------------
(* parseLLMJson. Strings are sequences over a small alphabet: the two braces,
   a letter, and the newline that step 1 removes. The code fences and the outer
   whitespace of steps 2 and 3 do not occur in this alphabet, and "{}" is its
   only JSON text. *)

JsonChars == {"{", "}", "x", "nl"}

JsonStrings == SeqsUpTo(JsonChars, MaxJsonLen)

\* jsonString.replace(/\n/g, '') and the fence removal and trim after it
Cleaned(s) == SelectSeq(s, LAMBDA c : c # "nl")

\* JSON.parse(cleaned) returns
JsonParses(s) == s = <<"{", "}">>

\* jsonString.match(/\{[\s\S]*\}|\[[\s\S]*\]/): from the first opening brace to
\* the last closing one; <<>> for no match
JsonMatch(s) ==
    LET opens == {j \in 1..Len(s) : s[j] = "{"}
        closes == {j \in 1..Len(s) : s[j] = "}"}
    IN IF opens = {} \/ closes = {} THEN <<>>
       ELSE LET a == CHOOSE j \in opens : \A k \in opens : j <= k
                b == CHOOSE j \in closes : \A k \in closes : k <= j
            IN IF a < b THEN SubSeq(s, a, b) ELSE <<>>

\* parseLLMJson is called
JsonStart ==
    /\ pc = "idle"
    /\ json.status = "idle"
    /\ \E s \in JsonStrings :
          json' = [status |-> "running", input |-> s, frames |-> <<s>>, overflow |-> FALSE]
    /\ UNCHANGED callVars

\* step 4 of the innermost call: JSON.parse returns, and so does every frame
JsonReturn ==
    /\ json.status = "running"
    /\ JsonParses(Cleaned(json.frames[Len(json.frames)]))
    /\ json' = [json EXCEPT !.status = "returned"]
    /\ UNCHANGED callVars

\* step 5: JSON.parse threw, the pattern matches: return parseLLMJson(extracted)
JsonRecurse ==
    /\ json.status = "running"
    /\ Len(json.frames) < MaxStack
    /\ LET s == json.frames[Len(json.frames)]
       IN /\ ~JsonParses(Cleaned(s))
          /\ JsonMatch(s) # <<>>
          /\ json' = [json EXCEPT !.frames = Append(@, JsonMatch(s))]
    /\ UNCHANGED callVars

\* the same, with no room left on the call stack: the RangeError of the call
\* is caught by the frames below, which throw 'Failed to parse LLM JSON'
JsonOverflow ==
    /\ json.status = "running"
    /\ Len(json.frames) = MaxStack
    /\ LET s == json.frames[Len(json.frames)]
       IN /\ ~JsonParses(Cleaned(s))
          /\ JsonMatch(s) # <<>>
    /\ json' = [json EXCEPT !.status = "failed", !.overflow = TRUE]
    /\ UNCHANGED callVars

\* step 5, no match: throw new Error('Failed to parse LLM JSON: ...')
JsonFail ==
    /\ json.status = "running"
    /\ LET s == json.frames[Len(json.frames)]
       IN /\ ~JsonParses(Cleaned(s))
          /\ JsonMatch(s) = <<>>
    /\ json' = [json EXCEPT !.status = "failed"]
    /\ UNCHANGED callVars

----------------------------------------------------------------------------
(* Specifications *)

\* the three one-shot operations
Next ==
    \/ StartText \/ StartImage \/ StartStructured
    \/ Prepare
    \/ Skip \/ Enter \/ NoRun \/ NoCase \/ Attempt \/ Wake
    \/ Exhausted

Spec == Init /\ [][Next]_vars

\* generateText alone
NextText ==
    \/ StartText
    \/ Prepare
    \/ Skip \/ Enter \/ NoRun \/ NoCase \/ Attempt \/ Wake
    \/ Exhausted

SpecText == Init /\ [][NextText]_vars

\* generateText over at most one listed backend, or the default order: the calls
\* in which retryWithBackoff runs for every retry setting
StartRetry ==
    pc = "idle" /\ \E r \in RequestsOver("text", OrdersUpTo(1)) : StartCall("text", r)

NextRetry ==
    \/ StartRetry
    \/ Prepare
    \/ Skip \/ Enter \/ NoRun \/ NoCase \/ Attempt \/ Wake
    \/ Exhausted

SpecRetry == Init /\ [][NextRetry]_vars

\* generateStructuredData over at most two listed backends, or the default order
\* retry?: number, given or left out
ScalarRetries == {r \in RetryInputs : r.t # "list"}

StructuredRequests == RequestsWith("structured", OrdersUpTo(2), ScalarRetries)

StartParse ==
    pc = "idle" /\ \E r \in StructuredRequests : StartCall("structured", r)

NextParse ==
    \/ StartParse
    \/ Prepare
    \/ Skip \/ Enter \/ NoRun \/ NoCase \/ Attempt \/ Wake
    \/ Exhausted

SpecParse == Init /\ [][NextParse]_vars

\* generateText and generateImage over at most two listed backends, or the
\* default order
StartTextShort ==
    pc = "idle" /\ \E r \in RequestsOver("text", OrdersUpTo(2)) : StartCall("text", r)

StartImageShort ==
    pc = "idle" /\ \E r \in RequestsOver("image", OrdersUpTo(2)) : StartCall("image", r)

NextTextImage ==
    \/ StartTextShort \/ StartImageShort
    \/ Prepare
    \/ Skip \/ Enter \/ NoRun \/ NoCase \/ Attempt \/ Wake
    \/ Exhausted

SpecTextImage == Init /\ [][NextTextImage]_vars

\* all four operations over at most two listed backends, or the default order
StartStructuredShort ==
    pc = "idle" /\ \E r \in StructuredRequests : StartCall("structured", r)

StartStreamShort ==
    pc = "idle" /\ \E r \in RequestsOver("stream", OrdersUpTo(2)) : StartCall("stream", r)

NextShort ==
    \/ StartTextShort \/ StartImageShort \/ StartStructuredShort \/ StartStreamShort
    \/ Prepare
    \/ Skip \/ Enter \/ NoRun \/ NoCase \/ Attempt \/ Wake
    \/ Exhausted
    \/ SSkip \/ SOpen \/ SText \/ SComplete \/ SThrow
    \/ SAllFailed

SpecShort == Init /\ [][NextShort]_vars

\* generateText calls with the default retry count and the default model
\* mapping, made one after the other in one process whose environment changes
\* in between
PlainRequests(k) ==
    {r \in RequestsWith(k, OrdersUpTo(1), {NoRequest.retry}) : r.model = NoRequest.model}

StartTextPlain == pc = "idle" /\ \E r \in PlainRequests("text") : StartCall("text", r)

NextProcess ==
    \/ StartTextPlain
    \/ Prepare
    \/ Skip \/ Enter \/ Attempt \/ Wake
    \/ Exhausted
    \/ Again \/ ChangeEnv

SpecProcess == Init /\ [][NextProcess]_vars

\* two generateText calls in flight at once in a fresh process
ConcurrentRequests == RequestsWith("text", OrdersUpTo(2), {NoRequest.retry})

StartTextConcurrent ==
    pc = "idle" /\ \E r \in ConcurrentRequests : StartCall("text", r)

NextConcurrent ==
    \/ StartTextConcurrent
    \/ PrepKey \/ PrepBuild
    \/ OtherStart \/ OtherKey \/ OtherBuild \/ OtherInvoke
    \/ Skip \/ Enter \/ NoCase \/ Attempt \/ Wake \/ Exhausted

SpecConcurrent == Init /\ [][NextConcurrent]_vars

\* parseLLMJson on every string of the alphabet
NextJson == JsonStart \/ JsonReturn \/ JsonRecurse \/ JsonOverflow \/ JsonFail

SpecJson == Init /\ [][NextJson]_vars

\* generateStream
NextStream ==
    \/ StartStream
    \/ Prepare
    \/ SSkip \/ SOpen \/ SText \/ SComplete \/ SThrow
    \/ SAllFailed

SpecStream == Init /\ [][NextStream]_vars

----------------------------------------------------------------------------
(* Properties *)

Last(s) == s[Len(s)]

\* a position of the fallback order that has a model entry
Eligible(pos) == Model(Order[pos]) # ""

CallsAt(pos) == {j \in 1..Len(calls) : calls[j].pos = pos}

\* the attempt failed: the adapter threw, or (structured) its text did not parse
Failed(res) == res \in {"fail", "nocred", "badjson"}

\* the attempt succeeded: the adapter returned and (structured) its text is well-formed JSON
Succeeded(res) == res \in {"ok", "nulljson"}

\* the error object that the attempt of invocation n failed with
ErrorOfCall(n) ==
    CASE calls[n].res = "fail" ->
            [name |-> "LLMError", msg |-> "adapter error",
             provider |-> calls[n].provider, code |-> "VENDOR", at |-> n]
      [] calls[n].res = "nocred" ->
            [name |-> "LLMError", msg |-> "Kling credentials not found",
             provider |-> "kling", code |-> "MISSING_CREDENTIALS", at |-> n]
      [] OTHER ->
            [name |-> "Error", msg |-> "Failed to parse LLM JSON", provider |-> "", code |-> "", at |-> n]

\* C1: backends are invoked in fallback order, a later one only when every
\* earlier invoked one has no attempt left; and when all attempts of a backend
\* failed and the first attempt of the next eligible backend succeeds, the call
\* returns that backend's result (its provider and model) and invokes no later one.
C1_FallbackOrder ==
    /\ \A a, b \in 1..Len(calls) : a < b => calls[a].pos <= calls[b].pos
    /\ \A n \in 1..Len(calls) :
          (/\ Succeeded(calls[n].res)
           /\ \E k \in 1..Len(Order) :
                /\ k < calls[n].pos
                /\ CallsAt(k) # {}
                /\ \A j \in CallsAt(k) : Failed(calls[j].res)
                /\ \A q \in (k + 1)..(calls[n].pos - 1) : ~Eligible(q))
          => /\ pc = "returned"
             /\ outcome.status = "returned"
             /\ outcome.provider = Order[calls[n].pos]
             /\ outcome.model = Model(Order[calls[n].pos])
             /\ n = Len(calls)

\* C2: once an attempt has succeeded, the call makes no further adapter
\* invocation: a successful attempt is always the last entry of the history.
C2_NoInvocationAfterSuccess ==
    \A n \in 1..Len(calls) : Succeeded(calls[n].res) => n = Len(calls)

\* C3: with the request's retry count given as a number N >= 0, a backend all
\* of whose attempts failed has been invoked exactly N+1 times when the
\* dispatcher has moved past it.
C3_RetryBound ==
    (req.retry.t = "num" /\ req.retry.n >= 0)
    => \A pos \in 1..Len(Order) :
          (/\ pos < idx
           /\ CallsAt(pos) # {}
           /\ \A j \in CallsAt(pos) : Failed(calls[j].res))
          => Cardinality(CallsAt(pos)) = req.retry.n + 1

\* C4: in one run of retryWithBackoff the n-th wait is initialDelay * 2^(n-1),
\* the waits never decrease, each failed try i < retries is followed by exactly
\* one wait, a run whose tries all failed has made retries+1 tries and exactly
\* `retries` waits (none after the last failure), and a try that succeeds is
\* followed by no wait.
C4_Backoff ==
    /\ \A n \in 1..Len(delays) : delays[n] = InitialDelay * 2 ^ (n - 1)
    /\ \A n \in 1..(Len(delays) - 1) : delays[n] <= delays[n + 1]
    /\ rwb = "run" => Len(delays) = i
    /\ rwb = "sleep" => Len(delays) = i + 1 /\ i < Retries
    /\ rwb = "ok" => Len(delays) = i
    /\ rwb = "threw" => IF Retries >= 0 THEN i = Retries + 1 /\ Len(delays) = Retries
                        ELSE i = 0 /\ Len(delays) = 0

\* a run of retryWithBackoff that failed three times and waited 1000 and 2000 ms
C4_Witness ==
    /\ kind = "text"
    /\ rwb = "threw"
    /\ delays = <<1000, 2000>>
    /\ i = 3

\* C5: when the call raises after every eligible backend was attempted and
\* failed, the raised error is the error of the last attempt made; when there
\* was no eligible backend at all, the raised error is the generic
\* 'All providers failed' error (configuration errors aside).
C5_ExhaustionError ==
    (/\ pc = "raised"
     /\ kind \in {"text", "image", "structured"}
     /\ outcome.error.msg # "Anthropic does not support image generation"
     /\ \A pos \in 1..Len(Order) :
           Eligible(pos) => /\ CallsAt(pos) # {}
                            /\ \A j \in CallsAt(pos) : Failed(calls[j].res))
    => IF \E pos \in 1..Len(Order) : Eligible(pos)
       THEN outcome.error = ErrorOfCall(Len(calls))
       ELSE outcome.error.msg = "All providers failed"

\* C6: a missing API key does not abort the call: a call ends with a
\* missing-key error only after every eligible backend other than the one
\* without key has had its turn.
C6_MissingKeyDoesNotAbort ==
    (pc = "raised" /\ outcome.error.code = "MISSING_API_KEY")
    => \A pos \in 1..Len(Order) :
          (Eligible(pos) /\ Order[pos] # outcome.error.provider) => CallsAt(pos) # {}

\* the chunks generateStream owes the caller for segments 1..n of the history:
\* per segment its text chunks, and a failure chunk if the segment threw
SegLen(n) == Len(segs[n].texts) + (IF segs[n].end = "threw" THEN 1 ELSE 0)

RECURSIVE SegOffset(_)
SegOffset(n) == IF n <= 1 THEN 0 ELSE SegOffset(n - 1) + SegLen(n - 1)

\* the next position after pos that has a model entry, 0 if none
NextEligibleStream(pos) ==
    LET later == {q \in (pos + 1)..Len(StreamingProviders) : Model(StreamingProviders[q]) # ""}
    IN IF later = {} THEN 0 ELSE CHOOSE q \in later : \A r \in later : q <= r

\* C7: when a backend's stream has completed cleanly, the generator is
\* finished and its output is exactly, for every backend opened before it in
\* order, that backend's text chunks followed by one failure chunk (status
\* error, that provider, text = the chunks it delivered, its error message),
\* and then the text chunks of the backend that completed; each opened backend
\* is the next eligible one after the previous, and none is opened afterwards.
C7_StreamingFailover ==
    (\E n \in 1..Len(segs) : segs[n].end = "clean")
    => LET last == Len(segs)
       IN /\ pc = "done"
          /\ segs[last].end = "clean"
          /\ segs[last].pos = idx
          /\ \A n \in 1..(last - 1) :
                /\ segs[n].end = "threw"
                /\ segs[n + 1].pos = NextEligibleStream(segs[n].pos)
          /\ Len(out) = SegOffset(last) + SegLen(last)
          /\ \A n \in 1..last :
                LET sg == segs[n]
                    off == SegOffset(n)
                IN /\ \A j \in 1..Len(sg.texts) :
                         /\ out[off + j].text = <<sg.texts[j]>>
                         /\ out[off + j].provider = sg.provider
                         /\ out[off + j].model = Model(sg.provider)
                         /\ out[off + j].streamStatus = ""
                   /\ sg.end = "threw" =>
                         LET c == out[off + Len(sg.texts) + 1]
                         IN /\ c.text = sg.texts
                            /\ c.provider = sg.provider
                            /\ c.model = Model(sg.provider)
                            /\ c.streamStatus = "error"
                            /\ c.error.name = "LLMError"
                            /\ c.error.provider = sg.provider
                            /\ c.error.msg = "adapter error"
                            /\ c.error.at = n

\* backend A delivered two chunks and threw, backend B delivered one chunk and
\* completed, and a third eligible backend was never opened
C7_Witness ==
    /\ pc = "done"
    /\ Len(segs) = 2
    /\ segs[1].end = "threw" /\ Len(segs[1].texts) = 2
    /\ segs[2].end = "clean" /\ Len(segs[2].texts) = 1
    /\ Len(out) = 4
    /\ NextEligibleStream(segs[2].pos) # 0

\* C8: iterating generateStream never raises an exception to the caller.
C8_StreamNeverRaises == kind = "stream" => pc # "raised"

\* C9: when the iteration is over and every eligible backend's stream was
\* opened and threw (or no backend is eligible), the generator has closed
\* normally and its last chunk is the one and only all-providers-failed chunk
\* (status error, code STREAM_FAILED, message of the last failure or generic).
C9_AllFailedChunk ==
    (/\ kind = "stream"
     /\ pc \in {"done", "raised"}
     /\ \A pos \in 1..Len(StreamingProviders) :
           Model(StreamingProviders[pos]) # ""
           => \E n \in 1..Len(segs) : segs[n].pos = pos /\ segs[n].end = "threw")
    => /\ pc = "done"
       /\ out # <<>>
       /\ Last(out).streamStatus = "error"
       /\ Last(out).error.code = "STREAM_FAILED"
       /\ Last(out).error.msg = (IF segs = <<>> THEN "All streaming providers failed"
                                 ELSE "adapter error")
       /\ Last(out).error.at = Len(segs)
       /\ Cardinality({n \in 1..Len(out) : out[n].error.code = "STREAM_FAILED"}) = 1

\* C10: a finished sequence's last chunk has error status if and only if no
\* backend completed its stream cleanly.
C10_LastChunkTellsOutcome ==
    (kind = "stream" /\ pc = "done" /\ out # <<>>)
    => (Last(out).streamStatus = "error" <=> ~\E n \in 1..Len(segs) : segs[n].end = "clean")

\* C11: every text chunk generateStream yields while a backend is streaming
\* normally carries streamStatus 'streaming' (failure chunks carry an error)
C11_TextChunksStreaming ==
    kind = "stream" =>
        \A n \in 1..Len(out) : out[n].error = NullError => out[n].streamStatus = "streaming"

\* the tracking events logged for provider p, in order
EventsOf(p) == SelectSeq(tracking, LAMBDA ev : ev.provider = p)

\* invocation n is a backend's first call and returned text that is not valid
\* JSON, and invocation n + 1 is the same backend's second call and returned
\* valid JSON (an object)
ParseRetried(n) ==
    /\ n + 1 <= Len(calls)
    /\ calls[n].try = 0 /\ calls[n].res = "badjson"
    /\ calls[n + 1].pos = calls[n].pos /\ calls[n + 1].res = "ok"

\* C12: in generateStructuredData, when a backend returns invalid JSON on its
\* first call and valid JSON on its second, the call returns the parsed object
\* from that backend, exactly two tracking events exist for the backend (one per
\* response, each with that response's usage), no backend is invoked afterwards,
\* and the event of a failed parse exists as soon as that response has been
\* received, before any retry.
C12_ParseRetry ==
    kind = "structured" =>
        /\ \A n \in 1..Len(calls) :
              calls[n].res = "badjson" => \E j \in 1..Len(tracking) : tracking[j].usage = n
        /\ \A n \in 1..Len(calls) :
              ParseRetried(n) =>
                 LET p == calls[n].provider
                 IN /\ Retries >= 1
                    /\ pc = "returned"
                    /\ outcome = Returned(p, Model(p), n + 1)
                    /\ Len(calls) = n + 1
                    /\ Len(EventsOf(p)) = 2
                    /\ EventsOf(p)[1].usage = n /\ EventsOf(p)[2].usage = n + 1
                    /\ \A j \in 1..2 : EventsOf(p)[j].error = "" /\ EventsOf(p)[j].model = Model(p)

C12_Witness ==
    /\ kind = "structured"
    /\ pc = "returned"
    /\ Len(calls) = 2
    /\ ParseRetried(1)
    /\ Len(tracking) = 2
    /\ Len(Order) >= 2

\* C13: generateImage with a fallback order that contains 'anthropic' raises the
\* configuration error with no credential read, no adapter constructed, no
\* adapter invoked and no tracking event.
C13_ImageConfigRejected ==
    (kind = "image" /\ InSeq("anthropic", Order)) =>
        /\ pc = "raised"
        /\ outcome = Raised(AnthropicImageError)
        /\ \A p \in envVarNames : env[p] = "unread"
        /\ apiKeyCache = {}
        /\ adapters = {}
        /\ calls = <<>>
        /\ tracking = <<>>

C13_Witness ==
    /\ kind = "image"
    /\ req.order.t = "list"
    /\ req.order.l = <<"google", "anthropic">>
    /\ pc = "raised"

\* provider p has no entry in  { ...MODEL_DEFAULTS.kind, ...request.model }
NoModelEntry(p) == req.model[p] = "absent" /\ MODEL_DEFAULTS(kind, p) = ""

\* the terminal event of an exhausted generateText / generateImage call
TerminalEvent(ev) == ev.model = "unknown" /\ ev.error # ""

\* C14: a backend in the fallback order with no entry in the merged model
\* mapping is never invoked, has no stream opened, and no tracking event or
\* stream chunk comes from it (the call's terminal event and terminal chunk,
\* which are labelled with the first backend of the order, are not its own).
C14_SkipOnMissingModel ==
    \A pos \in 1..Len(Order) :
        NoModelEntry(Order[pos]) =>
            LET p == Order[pos]
            IN /\ \A n \in 1..Len(calls) : calls[n].provider # p
               /\ \A n \in 1..Len(segs) : segs[n].provider # p
               /\ \A n \in 1..Len(tracking) :
                     tracking[n].provider = p => TerminalEvent(tracking[n])
               /\ \A n \in 1..Len(out) :
                     out[n].provider = p => out[n].error.code = "STREAM_FAILED"

C14_Witness ==
    /\ kind = "text"
    /\ Order = <<"openai", "google">>
    /\ NoModelEntry("openai")
    /\ pc = "returned"
    /\ outcome.provider = "google"
    /\ Len(tracking) = 1

\* C15: an error raised by generateText, generateImage or generateStructuredData
\* is either the configuration error, raised before any attempt, or the
\* exhaustion error, raised once the loop has been through every backend of the
\* fallback order.
C15_OnlyConfigOrExhaustion ==
    (kind \in {"text", "image", "structured"} /\ pc = "raised") =>
        \/ outcome.error = AnthropicImageError /\ calls = <<>>
        \/ /\ idx > Len(Order)
           /\ outcome.error = (IF lastError = NullError THEN AllFailedError ELSE lastError)
           /\ \A pos \in 1..Len(Order) :
                 (Eligible(pos) /\ HasCase(kind, Order[pos])) => CallsAt(pos) # {}

\* the loop of a one-shot call has been through the whole fallback order and
\* the call has thrown after it
ExhaustedCall == pc = "raised" /\ idx > Len(Order)

TerminalEvents == SelectSeq(tracking, TerminalEvent)

\* C17: when a generateText or generateImage call has exhausted (or skipped)
\* all its backends, exactly one terminal failure event has been emitted, the
\* last of the log, with zero usage, the first backend of the fallback order as
\* provider, model 'unknown' and the message of the error that is raised; no
\* terminal event exists otherwise.
C17_TerminalEvent ==
    kind \in {"text", "image"} =>
        IF ExhaustedCall
        THEN /\ Len(TerminalEvents) = 1
             /\ tracking # <<>> /\ TerminalEvent(Last(tracking))
             /\ Last(tracking).usage = 0
             /\ Len(Order) > 0 => Last(tracking).provider = Order[1]
             /\ Last(tracking).model = "unknown"
             /\ outcome.status = "raised"
             /\ Last(tracking).error = outcome.error.msg
             /\ Last(tracking).request_type = kind
        ELSE TerminalEvents = <<>>

C17_Witness ==
    /\ kind = "text"
    /\ Order = <<"openai", "google">>
    /\ NoModelEntry("openai")
    /\ ExhaustedCall
    /\ Len(calls) = 2
    /\ Last(tracking).provider = "openai"
    /\ outcome.error = AdapterError("google", 2)

\* C18: generateStructuredData emits exactly one terminal failure tracking event
\* when every backend of the fallback order has failed and the last error is
\* raised.
C18_StructuredTerminalEvent ==
    (kind = "structured" /\ ExhaustedCall /\ calls # <<>>) =>
        /\ Len(TerminalEvents) = 1
        /\ TerminalEvent(Last(tracking))

SuccessEvents == SelectSeq(tracking, LAMBDA ev : ev.error = "")

\* C19: a generateText or generateImage call that returns a result has emitted
\* exactly one success event (no error), with the provider and model of the
\* returned result and the usage of the successful adapter response, and no
\* terminal failure event.
C19_SuccessEvent ==
    (kind \in {"text", "image"} /\ pc = "returned") =>
        /\ outcome.status = "returned"
        /\ Len(SuccessEvents) = 1
        /\ SuccessEvents[1].provider = outcome.provider
        /\ SuccessEvents[1].model = outcome.model
        /\ SuccessEvents[1].usage = outcome.payload
        /\ SuccessEvents[1].usage = Len(calls)
        /\ Last(calls).res = "ok" /\ Last(calls).provider = outcome.provider
        /\ SuccessEvents[1].request_type = kind
        /\ TerminalEvents = <<>>

C19_Witness ==
    /\ kind = "image"
    /\ pc = "returned"
    /\ Len(calls) = 2
    /\ outcome.provider = "openai"
    /\ outcome.model = "custom"
    /\ tracking = <<Event("openai", "custom", 2, "image", "", 0)>>

CleanSegs == {n \in 1..Len(segs) : segs[n].end = "clean"}

\* C20: a generateStream call emits at most one tracking event; it emits one
\* exactly when a backend's stream has completed cleanly, a success event for
\* that backend with the usage its stream reported (0 when it reported none),
\* and the generator has then ended without opening a later backend.
C20_StreamSuccessEvent ==
    kind = "stream" =>
        /\ Len(tracking) <= 1
        /\ Len(tracking) = Cardinality(CleanSegs)
        /\ \A n \in CleanSegs :
              LET p == segs[n].provider
              IN /\ n = Len(segs)
                 /\ pc = "done"
                 /\ tracking[1] = Event(p, Model(p), streamUsage, "stream", "", 0)
                 /\ streamUsage \in {0, n}
                 /\ out = <<>> \/ Last(out).error.code # "STREAM_FAILED"

C20_Witness ==
    /\ kind = "stream"
    /\ pc = "done"
    /\ Len(StreamingProviders) = 3
    /\ \A pos \in 1..3 : Model(StreamingProviders[pos]) # ""
    /\ Len(segs) = 2
    /\ segs[1].end = "threw"
    /\ segs[2].end = "clean"
    /\ Len(tracking) = 1
    /\ tracking[1].usage = 2

\* C21: an attempt that fails with a missing-credential error (Kling's
\* generateImage without its credentials) is not retried: the backend is invoked
\* exactly once, no backoff wait follows, and the dispatcher goes on to the next
\* backend.
C21_NoRetryWithoutCredential ==
    \A n \in 1..Len(calls) :
        calls[n].res = "nocred" =>
            /\ calls[n].try = 0
            /\ CallsAt(calls[n].pos) = {n}
            /\ n = Len(calls) => (pc # "sleep" /\ delays = <<>> /\ idx > calls[n].pos)

\* C22: with a list of per-backend retry counts, the backend at position pos of
\* the fallback order is invoked at most retry[pos] + 1 times.
C22_PerBackendRetry ==
    req.retry.t = "list" =>
        \A pos \in 1..Len(Order) :
            pos <= Len(req.retry.l) => Cardinality(CallsAt(pos)) <= req.retry.l[pos] + 1


\* the backends of the current call's fallback order
InOrder(p) == \E j \in 1..Len(Order) : Order[j] = p

\* the current call got through its preparation
Prepared == pc \in {"loop", "retry", "sleep", "returned", "done"}

\* C23: a failed credential resolution is not cached. A call that fails for a
\* missing key leaves no entry for that backend in the adapter cache or the key
\* cache, the caches only ever hold entries made from a key that was found, and
\* a later call made once the key is available gets through preparation with
\* the backend's adapter built from a key that was found.
C23_FailureNotCached ==
    \A p \in envVarNames :
        /\ (pc = "raised" /\ outcome = Raised(MissingKeyError(p))) =>
               /\ env[p] = "unset"
               /\ p \notin adapters
               /\ p \notin apiKeyCache
               /\ keyCache[p] = ""
        /\ p \in adapters => p \in apiKeyCache
        /\ p \in apiKeyCache <=> keyCache[p] \in EnvValues \ {"unset"}
        /\ keyCache[p] \in (EnvValues \ {"unset"}) \cup {""}
        /\ ( /\ \E j \in 1..Len(past) : past[j] = Raised(MissingKeyError(p))
             /\ InOrder(p)
             /\ Prepared ) =>
               /\ p \in adapters
               /\ keyCache[p] # ""

\* a call failed for a backend's missing key, and a later call was answered by
\* that backend
C23_Witness ==
    \E p \in envVarNames :
        /\ \E j \in 1..Len(past) : past[j] = Raised(MissingKeyError(p))
        /\ pc = "returned"
        /\ calls # <<>>
        /\ Last(calls).provider = p
        /\ Last(calls).res = "ok"

\* C24: across the calls of a process, a backend's adapter is constructed at
\* most once and, once constructed, stays in place without being constructed
\* again; a key cache entry, once written, never changes, whatever happens to
\* the environment variable afterwards.
C24_BuiltOnce ==
    [][\A p \in LLMProvider :
          /\ built'[p] <= 1
          /\ p \in adapters => (p \in adapters' /\ built'[p] = built[p])
          /\ (p \in envVarNames /\ keyCache[p] # "") => keyCache'[p] = keyCache[p]
          /\ p \in apiKeyCache => p \in apiKeyCache']_vars

\* a later call was answered by a backend whose adapter an earlier call built,
\* after the environment variable had been given another value
C24_Witness ==
    \E p \in envVarNames :
        /\ ncalls >= 2
        /\ keyCache[p] = "set"
        /\ env[p] = "set2"
        /\ built[p] = 1
        /\ pc = "returned"
        /\ calls # <<>>
        /\ Last(calls).provider = p

\* the backends of an order that have a preparation block in generateText
Prepped(order) == {p \in LLMProvider : InSeq(p, order) /\ InSeq(p, PrepOrder("text"))}

\* q's preparation block stands before p's
PrepBefore(q, p) ==
    \E a, b \in 1..Len(PrepOrder("text")) :
        a < b /\ PrepOrder("text")[a] = q /\ PrepOrder("text")[b] = p

\* C25: with two calls in flight at once, both of which may construct the same
\* backend's adapter, neither ever invokes an adapter that has not been
\* constructed, the registry holds an adapter built from a key that was found
\* for every backend either call prepared, and the call's outcome and events
\* are those it has alone: it fails for the first backend of its own order
\* whose key is missing and otherwise goes through its order, logging only
\* for the invocation that answered it or for its exhaustion.
C25_DuplicateHarmless ==
    /\ \A n \in 1..Len(calls) : calls[n].provider \in adapters
    /\ other.used \subseteq adapters
    /\ \A p \in envVarNames :
          /\ p \in adapters <=> built[p] >= 1
          /\ p \in adapters => (keyCache[p] = "set" /\ env[p] = "set")
          /\ built[p] <= 2
    /\ Prepared => \A p \in Prepped(Order) : p \in adapters
    /\ other.pc \in {"loop", "done"} => \A p \in Prepped(other.order) : p \in adapters
    /\ \A p \in envVarNames :
          (pc = "raised" /\ outcome = Raised(MissingKeyError(p))) =>
              /\ p \in Prepped(Order)
              /\ env[p] = "unset"
              /\ \A q \in Prepped(Order) : PrepBefore(q, p) => env[q] = "set"
    /\ pc = "raised" =>
          \/ ExhaustedCall
          \/ tracking = <<>> /\ \E p \in envVarNames : outcome = Raised(MissingKeyError(p))
    /\ pc \notin {"returned", "raised"} => tracking = <<>>
    /\ pc = "returned" =>
          /\ Len(tracking) = 1
          /\ tracking[1].error = ""
          /\ tracking[1].provider = Last(calls).provider
    /\ ExhaustedCall => Len(tracking) = 1 /\ TerminalEvent(tracking[1])

\* both calls constructed the same backend's adapter, and both invoked it, the
\* current one after another backend of its order
C25_Witness ==
    \E p \in envVarNames :
        /\ built[p] = 2
        /\ pc = "returned"
        /\ Last(calls).provider = p
        /\ other.pc = "done"
        /\ p \in other.used
        /\ Len(Order) = 2

\* C26: the adapter invocations of a call come one at a time. An invocation
\* starts only while retryWithBackoff is running with no invocation
\* unresolved; a further try of a backend follows the failure of that backend's
\* previous try and the end of every backoff wait so far; the first try of a
\* backend follows the end of the previous backend's last try.
C26_OneInFlight ==
    [][calls' # calls =>
          /\ Len(calls') = Len(calls) + 1
          /\ SubSeq(calls', 1, Len(calls)) = calls
          /\ pc = "retry" /\ rwb = "run"
          /\ LET c == Last(calls')
             IN /\ c.pos = idx /\ c.try = i
                /\ Len(delays) = c.try
                /\ c.try > 0 =>
                      /\ calls # <<>>
                      /\ Last(calls).pos = c.pos
                      /\ Last(calls).try = c.try - 1
                      /\ Failed(Last(calls).res)
                /\ (c.try = 0 /\ calls # <<>>) =>
                      /\ Last(calls).pos < c.pos
                      /\ Failed(Last(calls).res) => Last(calls).try = Retries
                      /\ ~Failed(Last(calls).res) => Last(calls).res = "nulljson"]_vars

\* a backend was tried twice, with a backoff wait in between, and the next
\* backend was then opened
C26_Witness ==
    /\ Len(calls) = 3
    /\ calls[1].pos = calls[2].pos
    /\ calls[2].try = 1
    /\ calls[3].pos > calls[2].pos
    /\ calls[3].try = 0

FieldOf(k) ==
    CASE k = "text"  -> "text"
      [] k = "image" -> "imageUrl"
      [] OTHER       -> "data"

\* C29: in every result returned by generateText, generateImage and
\* generateStructuredData exactly one of text, imageUrl and data holds a value,
\* the one of the operation kind.
C29_OneResultField ==
    (pc = "returned" /\ kind \in {"text", "image", "structured"}) =>
        outcome.fields = {FieldOf(kind)}

\* C30: the events of a call all carry one trackId, the call's own, and one
\* started_at, the time at which the call was entered, however much time has
\* passed between them.
C30_OneTrackId ==
    \A a \in 1..Len(tracking) :
        /\ tracking[a].trackid = ncalls
        /\ tracking[a].started_at = started_at
        /\ started_at <= clock
        /\ \A b \in 1..Len(tracking) :
              /\ tracking[a].trackid = tracking[b].trackid
              /\ tracking[a].started_at = tracking[b].started_at

\* a generateStructuredData call has logged two events, a backoff wait apart
C30_Witness ==
    /\ kind = "structured"
    /\ Len(tracking) = 2
    /\ calls[1].res = "badjson"
    /\ clock > started_at

C32_ImageDefaultOrder ==
    ( /\ kind = "image"
      /\ req.order.t \in {"absent", "undefined"}
      /\ req.model["anthropic"] = "absent" ) =>
        /\ Order = ImageFallbackDefault
        /\ ~(pc = "raised" /\ outcome = Raised(AnthropicImageError))

\* C33: generateImage is rejected with the configuration error only if its
\* fallback order contains a backend that cannot generate images, whatever the
\* model mapping holds.
C33_RejectedOnlyForOrder ==
    (kind = "image" /\ pc = "raised" /\ outcome = Raised(AnthropicImageError)) =>
        \E j \in 1..Len(Order) : ~HasCase("image", Order[j])

\* C34: a backend that is skipped for want of a model entry has no influence
\* on the call, whether or not its credentials are available: in particular
\* the call never fails for that backend's missing key, as the same request
\* without the backend in its fallback order cannot.
C34_SkippedNoInfluence ==
    \A p \in envVarNames :
        (InOrder(p) /\ NoModelEntry(p)) =>
            ~(pc = "raised" /\ outcome = Raised(MissingKeyError(p)))

\* C35: whatever the retry field (a number or a list, 0, negative and empty
\* included), every backend with a model entry that the loop has passed was
\* invoked at least once, and the call never ends in an error that is neither
\* a backend's failure nor the exhaustion error.
C35_AnyRetryConfig ==
    kind \in {"text", "image", "structured"} =>
        /\ \A pos \in 1..Len(Order) :
              (pos < idx /\ Eligible(pos) /\ HasCase(kind, Order[pos])) => CallsAt(pos) # {}
        /\ ~(pc = "raised" /\ outcome = Raised(MessageReadError))

\* C36: in generateStructuredData an attempt whose response text is
\* well-formed JSON, whatever its value (null, false, 0 and "" included), ends
\* the call: the call returns from that backend and no further invocation
\* follows.
C36_AnyJsonValue ==
    kind = "structured" =>
        \A n \in 1..Len(calls) :
            Succeeded(calls[n].res) =>
                /\ n = Len(calls)
                /\ pc = "returned"
                /\ outcome.provider = calls[n].provider

\* C39: parseLLMJson applies its extraction step only to a string strictly
\* shorter than the one it was called with, so that its recursion ends by
\* itself, however much room the call stack has.
C39_ExtractionShrinks ==
    /\ \A f \in 2..Len(json.frames) : Len(json.frames[f]) < Len(json.frames[f - 1])
    /\ ~json.overflow

\* C38: whatever the retry field of the request, generateStream opens the
\* stream of an entry of its provider list at most once: the streams opened
\* are those of strictly increasing positions, each one an entry with a model,
\* and a stream that threw, with or without text before, is followed only by
\* streams of later entries.
C38_OpenedOncePerEntry ==
    kind = "stream" =>
       /\ \A n \in 1..Len(segs) :
             /\ segs[n].pos \in 1..Len(StreamingProviders)
             /\ Model(StreamingProviders[segs[n].pos]) # ""
       /\ \A n, m \in 1..Len(segs) : n < m => segs[n].pos < segs[m].pos
       /\ rwb = "none" /\ i = 0 /\ delays = <<>>

\* a request with a retry count whose first stream threw at once and whose
\* second threw after a text chunk; the call went on to the end of its list
C38_Witness ==
    /\ kind = "stream" /\ pc = "done"
    /\ req.retry.t = "num" /\ req.retry.n > 0
    /\ Len(segs) = 2
    /\ segs[1].end = "threw" /\ segs[1].texts = <<>>
    /\ segs[2].end = "threw" /\ segs[2].texts # <<>>

\* C37: a generateText, generateImage or generateStructuredData call whose
\* request gives its retry count as a number N >= 0 makes at most N+1 adapter
\* invocations for each eligible backend of its fallback order, N+1 times their
\* number in all.
C37_InvocationBound ==
    (kind \in {"text", "image", "structured"} /\ req.retry.t = "num" /\ req.retry.n >= 0)
    => Len(calls) <= Cardinality({pos \in 1..Len(Order) : Eligible(pos)}) * (req.retry.n + 1)

====
